---- MODULE Spec2Model ----
(***************************************************************************)
(* A model of the four CPU scheduling simulations of src/main.go:          *)
(* FCFSSchedule, SJFSchedule, SJFPrioritySchedule and RRSchedule.          *)
(*                                                                         *)
(* One behaviour is one run of one algorithm over one process list.  The   *)
(* three tick simulations take one step per iteration of their loop        *)
(* `for done != amountToComplete`; FCFSSchedule takes one step per         *)
(* iteration of `for i := range processes`.  Go slices are 0-indexed, and  *)
(* the code tests `tempProcessIndex > 0`, so slices are modelled as        *)
(* functions over 0..n-1.  An out-of-range index is a Go panic: pc becomes *)
(* "panic" and the run stops where the code stops.                         *)
(***************************************************************************)
EXTENDS Integers, Sequences, FiniteSets

VARIABLES alg, processes, pc, idx, serviceTime, waitingTime, burst, priorites,
          startTime, processIndex, done, time, processTime, schedule, gantt,
          totalWait, totalTurnaround, finalCompleteion, summary

vars == <<alg, processes, pc, idx, serviceTime, waitingTime, burst, priorites,
          startTime, processIndex, done, time, processTime, schedule, gantt,
          totalWait, totalTurnaround, finalCompleteion, summary>>

\* ------------------------------------------------------------------------
\* Bounds of the model
\* ------------------------------------------------------------------------
MaxProcs == 3

MaxArrival == 2

MaxBurst == 3

MaxPriority == 1

\* The tick loops are cut off after this many iterations (a run that is
\* still looping then has exceeded any bound the inputs could justify).
TimeCap == 15

\* ------------------------------------------------------------------------
\* Program constants
\* ------------------------------------------------------------------------
\* The "unrealistic number" the code stores in burst[i] / priorites[i] of a
\* process that has not arrived, and in newBurst / tempProcessIndex of SJF.
Unset == -10

timeQuantum == 2

Algorithms == {"FCFS", "SJF", "Priority", "RR"}

TickAlgorithms == {"SJF", "Priority", "RR"}

\* Priority is any integer of the input file; the values tried include the
\* one the code also uses as its marker.
Priorities == {Unset} \cup (0..MaxPriority)

NilRow == <<>>

\* ------------------------------------------------------------------------
\* Helpers
\* ------------------------------------------------------------------------
amountToComplete == Cardinality(DOMAIN processes)

Indices == 0..(amountToComplete - 1)

TimeSlice(p, start, stop) ==
    [PID |-> processes[p].ProcessID, Start |-> start, Stop |-> stop]

\* The row of the schedule table the tick simulations write at a completion.
CompletionRowBadTurnaround(p, t) ==
    [ID         |-> processes[p].ProcessID,
     Priority   |-> processes[p].Priority,
     Burst      |-> processes[p].BurstDuration,
     Arrival    |-> processes[p].ArrivalTime,
     Wait       |-> t - (processes[p].ArrivalTime + processes[p].BurstDuration),
     Turnaround |-> t - processes[p].BurstDuration,
     Exit       |-> t]

CompletionRow(p, t) ==
    [ID         |-> processes[p].ProcessID,
     Priority   |-> processes[p].Priority,
     Burst      |-> processes[p].BurstDuration,
     Arrival    |-> processes[p].ArrivalTime,
     Wait       |-> t - (processes[p].ArrivalTime + processes[p].BurstDuration),
     Turnaround |-> t - processes[p].ArrivalTime,
     Exit       |-> t]

\* `if (processes[i].ArrivalTime <= time) && (burst[i] == -10)`
Arrived(b) ==
    [k \in Indices |->
        IF processes[k].ArrivalTime <= time /\ b[k] = Unset
        THEN processes[k].BurstDuration ELSE b[k]]

ArrivedPriorities(b, pr) ==
    [k \in Indices |->
        IF processes[k].ArrivalTime <= time /\ b[k] = Unset
        THEN processes[k].Priority ELSE pr[k]]

\* ------------------------------------------------------------------------
\* Initial state: one algorithm, one process list of 0..MaxProcs rows
\* ------------------------------------------------------------------------
InitFor(algs) ==
    /\ alg \in algs
    /\ \E n \in 0..MaxProcs :
         \E arr \in [0..(n-1) -> 0..MaxArrival],
            bur \in [0..(n-1) -> 1..MaxBurst] :
            \E pri \in [0..(n-1) -> IF alg = "Priority" THEN Priorities ELSE {0}] :
               /\ processes = [k \in 0..(n-1) |->
                                 [ProcessID     |-> k + 1,
                                  ArrivalTime   |-> arr[k],
                                  BurstDuration |-> bur[k],
                                  Priority      |-> pri[k]]]
               /\ pc = IF n = 0 THEN "done" ELSE "run"
               /\ burst = [k \in 0..(n-1) |-> IF alg = "FCFS" THEN 0 ELSE Unset]
               /\ priorites = [k \in 0..(n-1) |-> IF alg = "Priority" THEN Unset ELSE 0]
               /\ schedule = [k \in 0..(n-1) |-> NilRow]
    /\ idx = 0
    /\ serviceTime = 0
    /\ waitingTime = 0
    /\ startTime = 0
    /\ processIndex = 0
    /\ done = 0
    /\ time = 0
    /\ processTime = 0
    /\ gantt = <<>>
    /\ totalWait = 0
    /\ totalTurnaround = 0
    /\ finalCompleteion = 0
    /\ summary = NilRow

Init == InitFor(Algorithms)

\* The state after loadProcesses has read the given rows
\* (id, burst, arrival) or (id, burst, arrival, priority); a row of three
\* fields leaves Priority at 0.
Loaded(rows) ==
    [k \in 0..(Len(rows) - 1) |->
        [ProcessID     |-> rows[k + 1][1],
         BurstDuration |-> rows[k + 1][2],
         ArrivalTime   |-> rows[k + 1][3],
         Priority      |-> IF Len(rows[k + 1]) = 4 THEN rows[k + 1][4] ELSE 0]]

InitScenario(a, rows) ==
    /\ alg = a
    /\ processes = Loaded(rows)
    /\ pc = IF Len(rows) = 0 THEN "done" ELSE "run"
    /\ burst = [k \in 0..(Len(rows) - 1) |-> IF a = "FCFS" THEN 0 ELSE Unset]
    /\ priorites = [k \in 0..(Len(rows) - 1) |-> IF a = "Priority" THEN Unset ELSE 0]
    /\ schedule = [k \in 0..(Len(rows) - 1) |-> NilRow]
    /\ idx = 0
    /\ serviceTime = 0
    /\ waitingTime = 0
    /\ startTime = 0
    /\ processIndex = 0
    /\ done = 0
    /\ time = 0
    /\ processTime = 0
    /\ gantt = <<>>
    /\ totalWait = 0
    /\ totalTurnaround = 0
    /\ finalCompleteion = 0
    /\ summary = NilRow

\* Input lists named in the specification, as rows of the input file.
ScenarioB == << <<1, 5, 0>>, <<2, 3, 0>>, <<3, 1, 0>> >>

ScenarioC == << <<1, 6, 2>>, <<2, 8, 0>>, <<3, 7, 4>>, <<4, 3, 5>> >>

ScenarioD == << <<1, 4, 0>>, <<2, 3, 1>> >>

\* A list with a long idle gap: the second process arrives 11 ticks after
\* the first one has finished.
ScenarioGap == << <<1, 2, 0>>, <<2, 3, 13>> >>

\* ------------------------------------------------------------------------
\* FCFSSchedule: one iteration of `for i := range processes`
\* ------------------------------------------------------------------------
FCFSWait(p) ==
    IF processes[p].ArrivalTime > 0
    THEN serviceTime - processes[p].ArrivalTime
    ELSE waitingTime

FCFSRow(p, w) ==
    [ID         |-> processes[p].ProcessID,
     Priority   |-> processes[p].Priority,
     Burst      |-> processes[p].BurstDuration,
     Arrival    |-> processes[p].ArrivalTime,
     Wait       |-> w,
     Turnaround |-> processes[p].BurstDuration + w,
     Exit       |-> processes[p].BurstDuration + processes[p].ArrivalTime + w]

FCFSStep ==
    /\ alg = "FCFS" /\ pc = "run"
    /\ LET w     == FCFSWait(idx)
           start == w + processes[idx].ArrivalTime
           svc   == serviceTime + processes[idx].BurstDuration
       IN /\ waitingTime' = w
          /\ schedule' = [schedule EXCEPT ![idx] = FCFSRow(idx, w)]
          /\ serviceTime' = svc
          /\ gantt' = Append(gantt, TimeSlice(idx, start, svc))
          /\ idx' = idx + 1
          /\ totalWait' = totalWait + w
          /\ totalTurnaround' = totalTurnaround + FCFSRow(idx, w).Turnaround
          /\ finalCompleteion' = FCFSRow(idx, w).Exit
          /\ pc' = IF idx + 1 = amountToComplete THEN "done" ELSE "run"
    /\ UNCHANGED <<alg, processes, burst, priorites, startTime, processIndex,
                   done, time, processTime, summary>>

\* ------------------------------------------------------------------------
\* SJFSchedule: one iteration of `for done != amountToComplete`
\* ------------------------------------------------------------------------
\* Lines 262-272: the scan for a process to switch to.  acc carries newBurst
\* and tempProcessIndex.  The condition compares the running process's
\* remaining burst with the DECLARED burst of process k, and burst[k] != 0
\* also lets a process through that has not arrived (burst[k] = -10).
RECURSIVE SJFScanOrEqual(_, _, _, _)
SJFScanOrEqual(k, b, pI, acc) ==
    IF k >= amountToComplete THEN acc
    ELSE LET hit == [newBurst |-> b[k], tempProcessIndex |-> k]
             nxt == IF b[pI] >= processes[k].BurstDuration /\ b[k] # 0
                    THEN IF acc.newBurst # Unset /\ acc.newBurst > b[k] THEN hit
                         ELSE IF acc.newBurst = Unset /\ k # pI THEN hit
                         ELSE acc
                    ELSE acc
         IN SJFScanOrEqual(k + 1, b, pI, nxt)

RECURSIVE SJFScan(_, _, _, _)
SJFScan(k, b, pI, acc) ==
    IF k >= amountToComplete THEN acc
    ELSE LET hit == [newBurst |-> b[k], tempProcessIndex |-> k]
             nxt == IF b[pI] > processes[k].BurstDuration /\ b[k] # 0
                    THEN IF acc.newBurst # Unset /\ acc.newBurst > b[k] THEN hit
                         ELSE IF acc.newBurst = Unset /\ k # pI THEN hit
                         ELSE acc
                    ELSE acc
         IN SJFScan(k + 1, b, pI, nxt)

\* Lines 308-316: the choice of the next process after a completion.  Both
\* branches of the code assign, so every k with burst[k] > 0 replaces the
\* choice made so far.
RECURSIVE SJFSelect(_, _, _)
SJFSelect(k, b, acc) ==
    IF k >= amountToComplete THEN acc
    ELSE LET hit == [newBurst |-> b[k], tempProcessIndex |-> k]
             nxt == IF b[k] > 0 /\ acc.newBurst > b[k] THEN hit
                    ELSE IF b[k] > 0 THEN hit
                    ELSE acc
         IN SJFSelect(k + 1, b, nxt)

SJFUnset == [newBurst |-> Unset, tempProcessIndex |-> Unset]

SJFTick ==
    /\ alg = "SJF" /\ pc = "run" /\ time < TimeCap
    /\ LET b1   == Arrived(burst)
           sc   == SJFScan(0, b1, processIndex, SJFUnset)
           sw   == sc.newBurst # Unset
           g1   == IF sw /\ time > 0
                   THEN Append(gantt, TimeSlice(processIndex, startTime, time))
                   ELSE gantt
           pI1  == IF sw THEN sc.tempProcessIndex ELSE processIndex
           st1  == IF sw THEN time ELSE startTime
           fin  == b1[pI1] = 0
           d2   == IF fin THEN done + 1 ELSE done
           g2   == IF fin THEN Append(g1, TimeSlice(pI1, st1, time)) ELSE g1
           more == fin /\ d2 # amountToComplete
           pI2  == IF more THEN SJFSelect(0, b1, SJFUnset).tempProcessIndex ELSE pI1
           st2  == IF more THEN time ELSE st1
       IN /\ schedule' = IF fin THEN [schedule EXCEPT ![done] = CompletionRow(pI1, time)]
                                ELSE schedule
          /\ totalWait' = IF fin THEN totalWait + CompletionRow(pI1, time).Wait
                                 ELSE totalWait
          /\ totalTurnaround' = IF fin
                                THEN totalTurnaround + CompletionRow(pI1, time).Turnaround
                                ELSE totalTurnaround
          /\ finalCompleteion' = IF fin THEN time ELSE finalCompleteion
          /\ gantt' = g2
          /\ done' = d2
          /\ processIndex' = pI2
          /\ startTime' = st2
          /\ IF pI2 \in Indices
             THEN /\ burst' = [b1 EXCEPT ![pI2] = @ - 1]
                  /\ time' = time + 1
                  /\ pc' = IF d2 = amountToComplete THEN "done" ELSE "run"
             ELSE \* burst[processIndex]-- with an index out of range
                  /\ burst' = b1
                  /\ time' = time
                  /\ pc' = "panic"
    /\ UNCHANGED <<alg, processes, idx, serviceTime, waitingTime, priorites,
                   processTime, summary>>

\* ------------------------------------------------------------------------
\* SJFPrioritySchedule: one iteration of `for done != amountToComplete`
\* ------------------------------------------------------------------------
\* Lines 158-168: the scan for an arrived process of higher priority (lower
\* number) than the running one.  acc carries newBurst and tempProcessIndex.
RECURSIVE PriorityScan(_, _, _, _, _)
PriorityScan(k, b, pr, pI, acc) ==
    IF k >= amountToComplete THEN acc
    ELSE LET hit == [newBurst |-> b[k], tempProcessIndex |-> k]
             nxt == IF acc.tempProcessIndex > 0
                    THEN IF pr[acc.tempProcessIndex] > pr[k] /\ b[k] > 0
                         THEN hit ELSE acc
                    ELSE IF /\ pr[k] # Unset
                            /\ k # pI
                            /\ b[k] > 0
                            /\ pr[pI] > pr[k]
                         THEN hit ELSE acc
         IN PriorityScan(k + 1, b, pr, pI, nxt)

\* Lines 204-212: the choice of the next process after a completion; the
\* result is tempProcessIndex, which starts at 0 and stays 0 if nothing fits.
RECURSIVE PrioritySelect(_, _, _, _)
PrioritySelect(k, b, pr, temp) ==
    IF k >= amountToComplete THEN temp
    ELSE LET nxt == IF temp > 0
                    THEN IF pr[temp] > pr[k] /\ b[k] > 0 THEN k ELSE temp
                    ELSE IF pr[k] # Unset /\ b[k] # 0 THEN k ELSE temp
         IN PrioritySelect(k + 1, b, pr, nxt)

PriorityTick ==
    /\ alg = "Priority" /\ pc = "run" /\ time < TimeCap
    /\ LET b1   == Arrived(burst)
           pr1  == ArrivedPriorities(burst, priorites)
           sc   == PriorityScan(0, b1, pr1, processIndex,
                                [newBurst |-> 0, tempProcessIndex |-> 0])
           sw   == sc.newBurst > 0
           g1   == IF sw /\ time > 0
                   THEN Append(gantt, TimeSlice(processIndex, startTime, time))
                   ELSE gantt
           pI1  == IF sw THEN sc.tempProcessIndex ELSE processIndex
           st1  == IF sw THEN time ELSE startTime
           fin  == b1[pI1] = 0
           d2   == IF fin THEN done + 1 ELSE done
           g2   == IF fin THEN Append(g1, TimeSlice(pI1, st1, time)) ELSE g1
           more == fin /\ d2 # amountToComplete
           pI2  == IF more THEN PrioritySelect(0, b1, pr1, 0) ELSE pI1
           st2  == IF more THEN time ELSE st1
       IN /\ schedule' = IF fin THEN [schedule EXCEPT ![done] = CompletionRow(pI1, time)]
                                ELSE schedule
          /\ totalWait' = IF fin THEN totalWait + CompletionRow(pI1, time).Wait
                                 ELSE totalWait
          /\ totalTurnaround' = IF fin
                                THEN totalTurnaround + CompletionRow(pI1, time).Turnaround
                                ELSE totalTurnaround
          /\ finalCompleteion' = IF fin THEN time ELSE finalCompleteion
          /\ gantt' = g2
          /\ done' = d2
          /\ processIndex' = pI2
          /\ startTime' = st2
          /\ priorites' = pr1
          /\ burst' = [b1 EXCEPT ![pI2] = @ - 1]
          /\ time' = time + 1
          /\ pc' = IF d2 = amountToComplete THEN "done" ELSE "run"
    /\ UNCHANGED <<alg, processes, idx, serviceTime, waitingTime, processTime,
                   summary>>

\* ------------------------------------------------------------------------
\* RRSchedule: one iteration of `for done != amountToComplete`
\* ------------------------------------------------------------------------
\* Lines 384-392: the choice of the next process after a completion; the
\* result is tempProcessIndex, which starts at 0 and stays 0 if nothing fits.
RECURSIVE RRSelect(_, _, _, _)
RRSelect(k, b, pI, temp) ==
    IF k >= amountToComplete THEN temp
    ELSE LET nxt == IF temp > 0
                    THEN IF /\ processes[k].ArrivalTime > processes[temp].ArrivalTime
                            /\ b[k] > 0
                            /\ k # pI
                         THEN k ELSE temp
                    ELSE IF b[k] > 0 /\ k # pI THEN k ELSE temp
         IN RRSelect(k + 1, b, pI, nxt)

\* Lines 401-432: the scan at the end of a quantum, from the running index
\* forward and then from index 0.  acc carries found (the code's
\* `i = len(processes)`), processIndex and tempProcessIndex.
RECURSIVE RRRotateNoWrap(_, _, _)
RRRotateNoWrap(k, b, acc) ==
    IF k >= amountToComplete \/ acc.found THEN acc
    ELSE IF k + acc.processIndex < amountToComplete
         THEN IF b[acc.processIndex + k] > 0 /\ k # 0
              THEN [acc EXCEPT !.found = TRUE, !.processIndex = @ + k]
              ELSE RRRotateNoWrap(k + 1, b, acc)
         ELSE acc

RECURSIVE RRRotate(_, _, _)
RRRotate(k, b, acc) ==
    IF k >= amountToComplete \/ acc.found THEN acc
    ELSE IF k + acc.processIndex < amountToComplete
         THEN IF b[acc.processIndex + k] > 0 /\ k # 0
              THEN [acc EXCEPT !.found = TRUE, !.processIndex = @ + k]
              ELSE RRRotate(k + 1, b, acc)
         ELSE IF b[acc.tempProcessIndex] > 0
              THEN [acc EXCEPT !.found = TRUE, !.processIndex = acc.tempProcessIndex]
              ELSE RRRotate(k + 1, b, [acc EXCEPT !.tempProcessIndex = @ + 1])

RRTick ==
    /\ alg = "RR" /\ pc = "run" /\ time < TimeCap
    /\ LET b1   == Arrived(burst)
           fin  == b1[processIndex] = 0
           d1   == IF fin THEN done + 1 ELSE done
           g1   == IF fin THEN Append(gantt, TimeSlice(processIndex, startTime, time))
                   ELSE gantt
           more == fin /\ d1 # amountToComplete
           pI1  == IF more THEN RRSelect(0, b1, processIndex, 0) ELSE processIndex
           st1  == IF more THEN time ELSE startTime
           pt1  == IF more THEN 0 ELSE processTime
           exp  == pt1 >= timeQuantum
           rot  == IF exp
                   THEN RRRotate(0, b1, [found |-> FALSE, processIndex |-> pI1,
                                         tempProcessIndex |-> 0])
                   ELSE [found |-> FALSE, processIndex |-> pI1, tempProcessIndex |-> 0]
           g2   == IF rot.found THEN Append(g1, TimeSlice(pI1, st1, time)) ELSE g1
           pI2  == rot.processIndex
           st2  == IF rot.found THEN time ELSE st1
           pt2  == IF exp THEN 0 ELSE pt1
       IN /\ schedule' = IF fin THEN [schedule EXCEPT ![done] = CompletionRow(processIndex, time)]
                                ELSE schedule
          /\ totalWait' = IF fin THEN totalWait + CompletionRow(processIndex, time).Wait
                                 ELSE totalWait
          /\ totalTurnaround' = IF fin
                                THEN totalTurnaround + CompletionRow(processIndex, time).Turnaround
                                ELSE totalTurnaround
          /\ finalCompleteion' = IF fin THEN time ELSE finalCompleteion
          /\ gantt' = g2
          /\ done' = d1
          /\ processIndex' = pI2
          /\ startTime' = st2
          /\ burst' = [b1 EXCEPT ![pI2] = @ - 1]
          /\ time' = time + 1
          /\ processTime' = pt2 + 1
          /\ pc' = IF d1 = amountToComplete THEN "done" ELSE "run"
    /\ UNCHANGED <<alg, processes, idx, serviceTime, waitingTime, priorites,
                   summary>>

\* ------------------------------------------------------------------------
\* After the loop: the averages and the throughput handed to outputSchedule
\* ------------------------------------------------------------------------
\* Division of two float64 values.  Go does not panic on a zero divisor of
\* float type: the quotient is NaN or an infinity.  A finite quotient is
\* kept as the pair of its numerator and denominator.
FloatDivPanics(a, b) ==
    IF b = 0 THEN "panic" ELSE [num |-> a, den |-> b]

FloatDiv(a, b) ==
    IF b = 0
    THEN IF a = 0 THEN "NaN" ELSE IF a > 0 THEN "+Inf" ELSE "-Inf"
    ELSE [num |-> a, den |-> b]

Output ==
    /\ pc = "done"
    /\ summary' = [aveWait       |-> FloatDiv(totalWait, amountToComplete),
                   aveTurnaround |-> FloatDiv(totalTurnaround, amountToComplete),
                   aveThroughput |-> FloatDiv(amountToComplete, finalCompleteion)]
    /\ pc' = "exit"
    /\ UNCHANGED <<alg, processes, idx, serviceTime, waitingTime, burst, priorites,
                   startTime, processIndex, done, time, processTime, schedule,
                   gantt, totalWait, totalTurnaround, finalCompleteion>>

Next == FCFSStep \/ SJFTick \/ PriorityTick \/ RRTick \/ Output

Spec == Init /\ [][Next]_vars

\* One algorithm at a time.
InitSJF == InitFor({"SJF"})

SpecSJF == InitSJF /\ [][SJFTick \/ Output]_vars

InitPriority == InitFor({"Priority"})

SpecPriority == InitPriority /\ [][PriorityTick \/ Output]_vars

InitRR == InitFor({"RR"})

SpecRR == InitRR /\ [][RRTick \/ Output]_vars

\* One algorithm over the bounded lists and the named lists.
InitFCFS == InitFor({"FCFS"}) \/ InitScenario("FCFS", ScenarioB)

SpecFCFS == InitFCFS /\ [][FCFSStep \/ Output]_vars

InitSJFScenarios == InitFor({"SJF"}) \/ InitScenario("SJF", ScenarioC)

SpecSJFScenarios == InitSJFScenarios /\ [][SJFTick \/ Output]_vars

InitRRScenarios ==
    \/ InitFor({"RR"})
    \/ InitScenario("RR", ScenarioD)
    \/ InitScenario("RR", ScenarioGap)

SpecRRScenarios == InitRRScenarios /\ [][RRTick \/ Output]_vars

\* ========================================================================
\* Properties
\* ========================================================================
RECURSIVE SliceSum(_, _)
SliceSum(g, pid) ==
    IF g = <<>> THEN 0
    ELSE (IF Head(g).PID = pid THEN Head(g).Stop - Head(g).Start ELSE 0)
         + SliceSum(Tail(g), pid)

RECURSIVE SumBurst(_)
SumBurst(k) ==
    IF k >= amountToComplete THEN 0
    ELSE processes[k].BurstDuration + SumBurst(k + 1)

LatestArrival ==
    IF Indices = {} THEN 0
    ELSE CHOOSE a \in {processes[k].ArrivalTime : k \in Indices} :
            \A k \in Indices : processes[k].ArrivalTime <= a

\* C1: when a run over a non-empty list ends, the durations of the slices
\* carrying a process's ID sum to that process's BurstDuration.
C1_WorkConservation ==
    (pc = "done" /\ amountToComplete > 0) =>
        \A k \in Indices :
            SliceSum(gantt, processes[k].ProcessID) = processes[k].BurstDuration

\* C2: the tick loop of SJFSchedule, SJFPrioritySchedule and RRSchedule is no
\* longer running once the clock has passed the latest arrival time plus the
\* sum of all burst durations (one more iteration is allowed for the tick
\* that records the last completion).
C2_TickBound ==
    (alg \in TickAlgorithms /\ pc = "run") =>
        time <= LatestArrival + SumBurst(0) + 1

\* C3: processIndex is always a valid index into a non-empty process list.
C3_IndexInRange ==
    amountToComplete > 0 => (processIndex \in Indices /\ pc # "panic")

\* C4: the Gantt slices each have Stop > Start and each starts where the
\* previous one stopped (so no two overlap and there is no gap up to the
\* last Stop).
C4_SlicesContiguous ==
    \A j \in 1..Len(gantt) :
        /\ gantt[j].Stop > gantt[j].Start
        /\ j > 1 => gantt[j].Start = gantt[j - 1].Stop

\* C5: a finished run over n processes has n completion rows, every process
\* in exactly one of them, in non-decreasing order of exit time.
C5_OneRowEachInOrder ==
    pc = "done" =>
        /\ \A r \in Indices : schedule[r] # NilRow
        /\ \A k \in Indices :
              Cardinality({r \in Indices : schedule[r].ID = processes[k].ProcessID}) = 1
        /\ \A r \in Indices : r > 0 => schedule[r - 1].Exit <= schedule[r].Exit

\* The process that ran the previous tick of SJFSchedule has executed at
\* least one tick and still has work left.
SJFMidBurst ==
    /\ alg = "SJF" /\ pc = "run" /\ time > 0
    /\ Arrived(burst)[processIndex] > 0
    /\ Arrived(burst)[processIndex] < processes[processIndex].BurstDuration

\* C6: in SJFSchedule a process that has executed at least one tick keeps the
\* CPU until its remaining burst reaches 0.
C6_NonPreemptive ==
    [][SJFMidBurst => processIndex' = processIndex]_vars

\* C6 (amended): in SJFSchedule a process that has executed at least one
\* tick and has work left loses the CPU only to a process that has arrived,
\* is unfinished and whose declared BurstDuration is strictly smaller than
\* the running process's remaining burst.
C6_PreemptedOnlyByShorter ==
    [][(SJFMidBurst /\ processIndex' # processIndex) =>
          /\ processIndex' \in Indices
          /\ processes[processIndex'].ArrivalTime <= time
          /\ Arrived(burst)[processIndex'] > 0
          /\ processes[processIndex'].BurstDuration < Arrived(burst)[processIndex]
      ]_vars

\* A finished SJF run in which a slice is shorter than its process's burst:
\* the process was taken off the CPU before it finished.
C6_Witness ==
    /\ alg = "SJF" /\ pc = "done"
    /\ \E j \in 1..Len(gantt) : \E k \in Indices :
          /\ gantt[j].PID = processes[k].ProcessID
          /\ gantt[j].Stop - gantt[j].Start < processes[k].BurstDuration

\* The arrived, unfinished processes at this tick.
Candidates == {k \in Indices : Arrived(burst)[k] > 0}

\* C7: when a process of SJFSchedule completes and another is selected, the
\* selected one has the smallest remaining burst among the arrived
\* unfinished processes, the lowest index among equals.
C7_SelectsShortest ==
    [][(alg = "SJF" /\ done' = done + 1 /\ Candidates # {}) =>
          /\ processIndex' \in Candidates
          /\ \A k \in Candidates :
                \/ Arrived(burst)[processIndex'] < Arrived(burst)[k]
                \/ (Arrived(burst)[processIndex'] = Arrived(burst)[k] /\ processIndex' <= k)
      ]_vars

\* p has started executing and is unfinished; q arrives at this tick with a
\* strictly lower priority value.
PreemptionDue(p, q) ==
    /\ alg = "Priority" /\ pc = "run"
    /\ p # q
    /\ burst[p] > 0 /\ burst[p] < processes[p].BurstDuration
    /\ processes[q].ArrivalTime = time
    /\ processes[q].Priority < processes[p].Priority

\* C8: in SJFPrioritySchedule, when q arrives after p has started, p is
\* unfinished and q's priority value is strictly lower, p does not execute
\* the arrival tick, and if p was running its slice is closed at that tick.
C8_PreemptAtArrival ==
    [][\A p, q \in Indices :
          PreemptionDue(p, q) =>
             /\ processIndex' # p
             /\ processIndex = p =>
                   \E j \in 1..Len(gantt') :
                       gantt'[j] = TimeSlice(p, startTime, time)
      ]_vars

\* The running RR process has used up its quantum and is not finished.
QuantumExpired ==
    /\ alg = "RR" /\ pc = "run"
    /\ processTime >= timeQuantum
    /\ Arrived(burst)[processIndex] > 0

\* Process k has arrived and has no completion row yet.
ArrivedUnfinished(k) ==
    /\ processes[k].ArrivalTime <= time
    /\ \A r \in Indices :
          schedule[r] = NilRow \/ schedule[r].ID # processes[k].ProcessID

\* C9: in RRSchedule, when the running process has used up its quantum and
\* some other process has arrived and is unfinished, the CPU is handed to a
\* different process at that tick.
C9_QuantumHandover ==
    [][(QuantumExpired /\ \E k \in Indices \ {processIndex} : ArrivedUnfinished(k))
          => processIndex' # processIndex]_vars

\* C10: every completion row has wait = exit - arrival - burst and
\* turnaround = exit - arrival, with the process's declared arrival and burst.
C10_RowArithmetic ==
    \A r \in Indices :
        schedule[r] # NilRow =>
            \E k \in Indices :
                /\ schedule[r].ID = processes[k].ProcessID
                /\ schedule[r].Arrival = processes[k].ArrivalTime
                /\ schedule[r].Burst = processes[k].BurstDuration
                /\ schedule[r].Wait =
                      schedule[r].Exit - schedule[r].Arrival - schedule[r].Burst
                /\ schedule[r].Turnaround = schedule[r].Exit - schedule[r].Arrival

\* A finished run of a tick simulation in which some process waited.
C10_Witness ==
    /\ alg \in TickAlgorithms /\ pc = "done"
    /\ \E r \in Indices : schedule[r] # NilRow /\ schedule[r].Wait > 0

\* C11: FCFSSchedule on the rows (1,5,0), (2,3,0), (3,1,0) produces the
\* slices [0,5), [5,8), [8,9), the waits 0, 5, 8 and the turnarounds 5, 8, 9.
C11_ScenarioB ==
    (alg = "FCFS" /\ processes = Loaded(ScenarioB) /\ pc = "done") =>
        /\ gantt = << [PID |-> 1, Start |-> 0, Stop |-> 5],
                      [PID |-> 2, Start |-> 5, Stop |-> 8],
                      [PID |-> 3, Start |-> 8, Stop |-> 9] >>
        /\ <<schedule[0].Wait, schedule[1].Wait, schedule[2].Wait>> = <<0, 5, 8>>
        /\ <<schedule[0].Turnaround, schedule[1].Turnaround,
             schedule[2].Turnaround>> = <<5, 8, 9>>

\* C12: SJFSchedule on the rows (1,6,2), (2,8,0), (3,7,4), (4,3,5) has
\* emitted the slice [0,8) of process 2 as its first slice once tick 8 is
\* over, and ends with the processes run in the order 2, 4, 1, 3.
C12_ScenarioC ==
    (alg = "SJF" /\ processes = Loaded(ScenarioC)) =>
        /\ time > 8 =>
              /\ Len(gantt) >= 1
              /\ gantt[1] = [PID |-> 2, Start |-> 0, Stop |-> 8]
        /\ pc = "done" =>
              [j \in 1..Len(gantt) |-> gantt[j].PID] = <<2, 4, 1, 3>>

\* C13: RRSchedule on the rows (1,4,0), (2,3,1) produces exactly the slices
\* process 1 [0,2), process 2 [2,4), process 1 [4,6), process 2 [6,7).
C13_ScenarioD ==
    (alg = "RR" /\ processes = Loaded(ScenarioD) /\ pc \in {"done", "exit"}) =>
        gantt = << [PID |-> 1, Start |-> 0, Stop |-> 2],
                   [PID |-> 2, Start |-> 2, Stop |-> 4],
                   [PID |-> 1, Start |-> 4, Stop |-> 6],
                   [PID |-> 2, Start |-> 6, Stop |-> 7] >>

\* The run of RRSchedule over the rows of scenario D has ended.
C13_Witness ==
    alg = "RR" /\ processes = Loaded(ScenarioD) /\ pc = "exit"

\* C14: on an empty process list no algorithm executes a tick or fails, no
\* slice and no row is emitted, and the averages and the throughput handed
\* to the table are NaN.
C14_EmptyList ==
    amountToComplete = 0 =>
        /\ pc \in {"done", "exit"}
        /\ time = 0 /\ idx = 0 /\ done = 0
        /\ gantt = <<>>
        /\ DOMAIN schedule = {}
        /\ pc = "exit" =>
              summary = [aveWait |-> "NaN", aveTurnaround |-> "NaN",
                         aveThroughput |-> "NaN"]

\* A run over the empty list has reported its summary.
C14_Witness ==
    amountToComplete = 0 /\ pc = "exit"

\* C15: for the process at index i, FCFSSchedule computes
\* wait = max(0, serviceTime - arrival), start = arrival + wait,
\* completion = start + burst, and emits the slice [start, serviceTime + burst).
C15_FCFSStepRule ==
    [][(alg = "FCFS" /\ pc = "run") =>
          LET a == processes[idx].ArrivalTime
              b == processes[idx].BurstDuration
              w == IF serviceTime - a > 0 THEN serviceTime - a ELSE 0
          IN /\ schedule'[idx].Wait = w
             /\ schedule'[idx].Exit = a + w + b
             /\ gantt' = Append(gantt, [PID   |-> processes[idx].ProcessID,
                                        Start |-> a + w,
                                        Stop  |-> serviceTime + b])
      ]_vars

\* C16: when a process of SJFPrioritySchedule completes and another is
\* selected, the selected one has the lowest priority value among the arrived
\* processes with remaining burst > 0, the lowest index among equals.
C16_SelectsHighestPriority ==
    [][(alg = "Priority" /\ done' = done + 1 /\ Candidates # {}) =>
          /\ processIndex' \in Candidates
          /\ \A k \in Candidates :
                \/ processes[processIndex'].Priority < processes[k].Priority
                \/ /\ processes[processIndex'].Priority = processes[k].Priority
                   /\ processIndex' <= k
      ]_vars

\* The first index with remaining burst > 0 met from k+1 on, wrapping to 0.
CircularNext(k) ==
    LET n    == amountToComplete
        offs == {d \in 1..(n - 1) : Arrived(burst)[(k + d) % n] > 0}
        d0   == CHOOSE d \in offs : \A e \in offs : d <= e
    IN (k + d0) % n

\* C17: when the process at index k of RRSchedule finishes and other arrived
\* unfinished processes exist, the next process to run is the first index
\* with remaining burst > 0 met scanning k+1, k+2, ..., wrapping to index 0.
C17_SelectsCircularNext ==
    [][(/\ alg = "RR" /\ done' = done + 1
        /\ Candidates \ {processIndex} # {}) =>
          processIndex' = CircularNext(processIndex)
      ]_vars

EarliestArrival ==
    CHOOSE a \in {processes[k].ArrivalTime : k \in Indices} :
        \A k \in Indices : a <= processes[k].ArrivalTime

\* C18: in SJFSchedule, when no process arrives at tick 0, no slice is
\* emitted up to the earliest arrival tick, and once that tick is over a
\* process that arrived at it is running from that tick with its full burst
\* less the one tick executed.
C18_IdleStart ==
    (alg = "SJF" /\ amountToComplete > 0 /\ EarliestArrival > 0) =>
        /\ time <= EarliestArrival => gantt = <<>>
        /\ time = EarliestArrival + 1 =>
              \E k \in Indices :
                  /\ processes[k].ArrivalTime = EarliestArrival
                  /\ processIndex = k
                  /\ startTime = EarliestArrival
                  /\ burst[k] = processes[k].BurstDuration - 1

\* C19: in RRSchedule, on a tick where the running process's remaining burst
\* is 0 and processTime has reached timeQuantum, the process is retired
\* (row and closing slice), processTime restarts from 0 and no rotation
\* slice is emitted on that tick.
C19_CompletionPrecedence ==
    [][(/\ alg = "RR" /\ pc = "run"
        /\ Arrived(burst)[processIndex] = 0
        /\ processTime >= timeQuantum) =>
          /\ done' = done + 1
          /\ schedule'[done] = CompletionRow(processIndex, time)
          /\ gantt' = Append(gantt, TimeSlice(processIndex, startTime, time))
          /\ processTime' = 1
      ]_vars

\* C20: every slice starts at or after the arrival time of its process, and
\* every reported wait is >= 0.
C20_NoRunBeforeArrival ==
    /\ \A j \in 1..Len(gantt) : \A k \in Indices :
          gantt[j].PID = processes[k].ProcessID =>
              gantt[j].Start >= processes[k].ArrivalTime
    /\ \A r \in Indices : schedule[r] # NilRow => schedule[r].Wait >= 0

====
